---------------------------- MODULE Spec2Model ----------------------------
(***************************************************************************)
(* A model of binu8_tool.py: the header-offset resolution (parse_header),  *)
(* the length-prefixed string-table codec (read_string_entry,              *)
(* write_string_entry) and the two batch commands (dump_script,            *)
(* import_script).                                                         *)
(*                                                                         *)
(* A file is a sequence of bytes (0..255); a Python file object is that    *)
(* sequence with a cursor (a 0-based position).  A text (Python str) is a  *)
(* sequence of Unicode code points.  A Python value that may be None is a  *)
(* record [some, val].  A call that may raise returns a record whose err   *)
(* field names the exception ("none" when it returns normally).            *)
(***************************************************************************)
EXTENDS Integers, Sequences, FiniteSets, TLC

VARIABLES
    command,          \* "dump" | "import" | "header" | "codec": what main() runs
    files,            \* get_files(): the batch, a sequence of [data, readable]
    csv,              \* the CSV file at csv_path: None, or Some(sequence of rows)
    translation_map,  \* import_script: {file -> {id -> text}}
    pc,               \* position in the command
    fi,               \* 1-based rank in files of the file the for loop handles next
    dst,              \* the output tree: per file None (not opened) or Some(bytes)
    rows,             \* dump_script: the rows collected so far
    csv_out,          \* dump_script: the CSV written, None before
    exc,              \* the exception that ended the command ("none" if none)
    ret,              \* what the last call (file body, parse_header, codec) returned
    cur_text          \* codec: the text handed to write_string_entry

vars == << command, files, csv, translation_map, pc, fi, dst, rows, csv_out,
           exc, ret, cur_text >>

-----------------------------------------------------------------------------
(* Python values *)

None == [some |-> FALSE, val |-> << >>]

Some(v) == [some |-> TRUE, val |-> v]

Min(a, b) == IF a <= b THEN a ELSE b

\* dict.get(k, default) on a dict modelled as a function
DictGet(d, k, default) == IF k \in DOMAIN d THEN d[k] ELSE default

\* src.seek(pos); src.read(n): at most n bytes, fewer (or none) at end of file
Read(src, pos, n) == SubSeq(src, pos + 1, Min(pos + n, Len(src)))

\* ReadAll with the cursor one byte too far
ReadAll_SkipByte(src, pos) == SubSeq(src, pos + 2, Len(src))

\* src.seek(pos); src.read(): everything up to end of file
ReadAll(src, pos) == SubSeq(src, pos + 1, Len(src))

\* struct.unpack('<L', data) accepts exactly 4 bytes
CanUnpack(data) == Len(data) = 4

\* byte2int: the little-endian value of 4 bytes
byte2int(data) ==
    data[1] + 256 * data[2] + 65536 * data[3] + 16777216 * data[4]

\* struct.pack('<L', n)
pack(n) ==
    << n % 256, (n \div 256) % 256, (n \div 65536) % 256,
       (n \div 16777216) % 256 >>

-----------------------------------------------------------------------------
(* str.encode('utf-8') and bytes.decode('utf-8', errors='replace') *)

\* the UTF-8 bytes of one code point (no surrogate reaches encode: a text is
\* the result of a decode or of reading the CSV as UTF-8)
EncodeCp(cp) ==
    IF cp < 128 THEN << cp >>
    ELSE IF cp < 2048 THEN << 192 + (cp \div 64), 128 + (cp % 64) >>
    ELSE IF cp < 65536 THEN
        << 224 + (cp \div 4096), 128 + ((cp \div 64) % 64), 128 + (cp % 64) >>
    ELSE
        << 240 + (cp \div 262144), 128 + ((cp \div 4096) % 64),
           128 + ((cp \div 64) % 64), 128 + (cp % 64) >>

RECURSIVE encode(_)
encode(text) ==
    IF text = << >> THEN << >>
    ELSE EncodeCp(Head(text)) \o encode(Tail(text))

\* the length of the sequence a lead byte announces, 0 for an invalid lead byte
SeqLen(b) ==
    IF b < 128 THEN 1
    ELSE IF b < 194 THEN 0
    ELSE IF b < 224 THEN 2
    ELSE IF b < 240 THEN 3
    ELSE IF b < 245 THEN 4
    ELSE 0

\* whether c may follow lead byte b as the k-th continuation byte (k >= 1)
IsCont(b, k, c) ==
    /\ c >= 128
    /\ c < 192
    /\ k = 1 =>
        /\ b = 224 => c >= 160
        /\ b = 237 => c < 160
        /\ b = 240 => c >= 144
        /\ b = 244 => c < 144

\* the number of valid continuation bytes that follow the lead byte at p
\* (1-based), counting from the k-th, at most need - 1 in all
RECURSIVE ContRun(_, _, _, _)
ContRun(data, p, k, need) ==
    IF k >= need \/ p + k > Len(data) \/ ~IsCont(data[p], k, data[p + k])
    THEN k - 1
    ELSE ContRun(data, p, k + 1, need)

\* the code point of the well-formed sequence of n bytes at p
DecodeCp(data, p, n) ==
    IF n = 1 THEN data[p]
    ELSE IF n = 2 THEN (data[p] - 192) * 64 + (data[p + 1] - 128)
    ELSE IF n = 3 THEN
        (data[p] - 224) * 4096 + (data[p + 1] - 128) * 64 + (data[p + 2] - 128)
    ELSE
        (data[p] - 240) * 262144 + (data[p + 1] - 128) * 4096
            + (data[p + 2] - 128) * 64 + (data[p + 3] - 128)

\* errors='replace': each maximal ill-formed run becomes U+FFFD
RECURSIVE decodeFrom(_, _)
decodeFrom(data, p) ==
    IF p > Len(data) THEN << >>
    ELSE LET need == SeqLen(data[p])
             got  == IF need = 0 THEN 0 ELSE ContRun(data, p, 1, need)
         IN  IF need # 0 /\ got = need - 1
             THEN << DecodeCp(data, p, need) >> \o decodeFrom(data, p + need)
             ELSE << 65533 >> \o decodeFrom(data, p + 1 + got)

decode(data) == decodeFrom(data, 1)

-----------------------------------------------------------------------------
(* parse_header *)

\* data[k1] == v1 and data[k2] == v2 and ...: evaluated left to right, an
\* index past the end raises IndexError, the first unequal byte ends it
RECURSIVE AllEq(_, _)
AllEq(data, tests) ==
    IF tests = << >> THEN "true"
    ELSE LET k == Head(tests)[1]
             v == Head(tests)[2]
         IN  IF k >= Len(data) THEN "IndexError"
             ELSE IF data[k + 1] # v THEN "false"
             ELSE AllEq(data, Tail(tests))

\* count = byte2int(src.read(4)); src.seek(count * size, 1)
SkipTable(src, pos, size) ==
    LET data == Read(src, pos, 4)
    IN  IF ~CanUnpack(data) THEN [err |-> "struct.error", pos |-> pos + Len(data)]
        ELSE [err |-> "none", pos |-> pos + 4 + byte2int(data) * size]

\* VersionSkip with the length-prefixed block sought at 12 instead of 13
VersionSkip_Seek12(src) ==
    LET version == Read(src, 0, 9)
        bare    == AllEq(version, << <<0, 86>>, <<1, 69>>, <<2, 82>> >>)
        prefixed == AllEq(version, << <<0, 9>>, <<4, 86>>, <<5, 69>>, <<6, 82>> >>)
    IN  IF bare = "IndexError" THEN [err |-> "IndexError", pos |-> Len(version)]
        ELSE IF bare = "true" THEN SkipTable(src, 9, 4)
        ELSE IF prefixed = "IndexError"
             THEN [err |-> "IndexError", pos |-> Len(version)]
        ELSE IF prefixed = "true" THEN SkipTable(src, 12, 4)
        ELSE [err |-> "none", pos |-> 0]

\* the if / elif / else on the version block: where the cursor stands after it
VersionSkip(src) ==
    LET version == Read(src, 0, 9)
        bare    == AllEq(version, << <<0, 86>>, <<1, 69>>, <<2, 82>> >>)
        prefixed == AllEq(version, << <<0, 9>>, <<4, 86>>, <<5, 69>>, <<6, 82>> >>)
    IN  IF bare = "IndexError" THEN [err |-> "IndexError", pos |-> Len(version)]
        ELSE IF bare = "true" THEN SkipTable(src, 9, 4)
        ELSE IF prefixed = "IndexError"
             THEN [err |-> "IndexError", pos |-> Len(version)]
        ELSE IF prefixed = "true" THEN SkipTable(src, 13, 4)
        ELSE [err |-> "none", pos |-> 0]

parse_header(src) ==
    LET v == VersionSkip(src)
    IN  IF v.err # "none" THEN [err |-> v.err, off |-> 0]
        ELSE LET init_code == SkipTable(src, v.pos, 8)
             IN  IF init_code.err # "none" THEN [err |-> init_code.err, off |-> 0]
                 ELSE LET code == SkipTable(src, init_code.pos, 8)
                      IN  IF code.err # "none" THEN [err |-> code.err, off |-> 0]
                          ELSE [err |-> "none", off |-> code.pos]

-----------------------------------------------------------------------------
(* read_string_entry / write_string_entry *)

\* read_string_entry that leaves the terminator in the text
read_string_entry_KeepNull(src, pos) ==
    LET len_bytes == Read(src, pos, 4)
    IN  IF len_bytes = << >> THEN [err |-> "none", text |-> None, pos |-> pos]
        ELSE IF ~CanUnpack(len_bytes)
             THEN [err |-> "struct.error", text |-> None,
                   pos |-> pos + Len(len_bytes)]
        ELSE LET length  == byte2int(len_bytes)
                 content == Read(src, pos + 4, length)
             IN  IF length > 0
                 THEN [err |-> "none", text |-> Some(decode(content)),
                       pos |-> pos + 4 + Len(content)]
                 ELSE [err |-> "none", text |-> Some(<< >>), pos |-> pos + 4]

\* returns the text (None at end of file) and the cursor after the read
read_string_entry(src, pos) ==
    LET len_bytes == Read(src, pos, 4)
    IN  IF len_bytes = << >> THEN [err |-> "none", text |-> None, pos |-> pos]
        ELSE IF ~CanUnpack(len_bytes)
             THEN [err |-> "struct.error", text |-> None,
                   pos |-> pos + Len(len_bytes)]
        ELSE LET length  == byte2int(len_bytes)
                 content == Read(src, pos + 4, length)
             IN  IF length > 0
                 THEN IF content # << >> /\ content[Len(content)] = 0
                      THEN [err |-> "none",
                            text |-> Some(decode(SubSeq(content, 1, Len(content) - 1))),
                            pos |-> pos + 4 + Len(content)]
                      ELSE [err |-> "none", text |-> Some(decode(content)),
                            pos |-> pos + 4 + Len(content)]
                 ELSE [err |-> "none", text |-> Some(<< >>), pos |-> pos + 4]

\* write_string_entry whose length field leaves the terminator out
write_string_entry_LenNoNull(out, text) ==
    IF ~text.some THEN [err |-> "AttributeError", out |-> out]
    ELSE LET encoded_str == encode(text.val)
         IN  [err |-> "none",
              out |-> out \o pack(Len(encoded_str)) \o encoded_str \o << 0 >>]

\* write_string_entry that writes no terminator
write_string_entry_NoTerminator(out, text) ==
    IF ~text.some THEN [err |-> "AttributeError", out |-> out]
    ELSE LET encoded_str == encode(text.val)
         IN  [err |-> "none",
              out |-> out \o pack(Len(encoded_str) + 1) \o encoded_str]

\* write_string_entry that writes the empty text as it is read: length 0
write_string_entry_EmptyAsZero(out, text) ==
    IF ~text.some THEN [err |-> "AttributeError", out |-> out]
    ELSE LET encoded_str == encode(text.val)
         IN  IF encoded_str = << >>
             THEN [err |-> "none", out |-> out \o pack(0)]
             ELSE [err |-> "none",
                   out |-> out \o pack(Len(encoded_str) + 1) \o encoded_str
                               \o << 0 >>]

\* returns dst after the three writes; None has no encode()
write_string_entry(out, text) ==
    IF ~text.some THEN [err |-> "AttributeError", out |-> out]
    ELSE LET encoded_str == encode(text.val)
         IN  [err |-> "none",
              out |-> out \o pack(Len(encoded_str) + 1) \o encoded_str \o << 0 >>]

-----------------------------------------------------------------------------
(* the CSV transport *)

\* text.replace(<<a, b>>, <<c>>)
RECURSIVE Replace2(_, _, _, _)
Replace2(text, a, b, c) ==
    IF text = << >> THEN << >>
    ELSE IF Len(text) >= 2 /\ text[1] = a /\ text[2] = b
         THEN << c >> \o Replace2(SubSeq(text, 3, Len(text)), a, b, c)
    ELSE << Head(text) >> \o Replace2(Tail(text), a, b, c)

\* text.replace(<<a>>, <<b, c>>)
RECURSIVE Replace1(_, _, _, _)
Replace1(text, a, b, c) ==
    IF text = << >> THEN << >>
    ELSE IF Head(text) = a THEN << b, c >> \o Replace1(Tail(text), a, b, c)
    ELSE << Head(text) >> \o Replace1(Tail(text), a, b, c)

\* dump_script: text.replace('\n', '\\n').replace('\r', '\\r')
sanitize(text) == Replace1(Replace1(text, 10, 92, 110), 13, 92, 114)

\* import_script: trans.replace('\\n', '\n').replace('\\r', '\r')
unescape(trans) == Replace2(Replace2(trans, 92, 110, 10), 92, 114, 13)

\* import_script: the translation_map built from the CSV rows, a later row
\* for the same (file, id) replacing an earlier one
RECURSIVE LoadRows(_, _)
LoadRows(reader, map) ==
    IF reader = << >> THEN map
    ELSE LET row   == Head(reader)
             fname == row.file
             idx   == row.id
             trans == unescape(row.translation)
             old   == DictGet(map, fname, << >>)
             new   == [k \in (DOMAIN old) \cup {idx} |->
                          IF k = idx THEN trans ELSE old[k]]
         IN  LoadRows(Tail(reader),
                      [f \in (DOMAIN map) \cup {fname} |->
                          IF f = fname THEN new ELSE map[f]])

-----------------------------------------------------------------------------
(* one file of dump_script *)

\* for i in range(str_count - 1): the rows of this file
RECURSIVE DumpEntries(_, _, _, _, _, _)
DumpEntries(src, pos, i, str_count, rel_path, acc) ==
    IF i >= str_count - 1 THEN [err |-> "none", rows |-> acc, pos |-> pos]
    ELSE LET r == read_string_entry(src, pos)
         IN  IF r.err # "none" THEN [err |-> r.err, rows |-> acc, pos |-> r.pos]
             ELSE DumpEntries(src, r.pos, i + 1, str_count, rel_path,
                     IF r.text.some
                     THEN Append(acc, [file |-> rel_path, id |-> i,
                                       original |-> sanitize(r.text.val),
                                       translation |-> << >>])
                     ELSE acc)

\* the body of "with open(fn, 'rb') as src" in dump_script
DumpFile(src, rel_path) ==
    LET h == parse_header(src)
    IN  IF h.err # "none" THEN [err |-> h.err, rows |-> << >>, pos |-> 0]
        ELSE LET count_bytes == Read(src, h.off, 4)
             IN  IF ~CanUnpack(count_bytes)
                 THEN [err |-> "struct.error", rows |-> << >>,
                       pos |-> h.off + Len(count_bytes)]
                 ELSE DumpEntries(src, h.off + 4 + 5, 0, byte2int(count_bytes),
                                  rel_path, << >>)

-----------------------------------------------------------------------------
(* one file of import_script *)

\* "if trans_text is not None" in place of "if trans_text"
Truthy_NotNone(text) == text.some

\* Python truthiness of an optional text: None and '' are false
Truthy(text) == text.some /\ text.val # << >>

\* for i in range(str_count - 1): out is dst so far, texts the texts written
RECURSIVE ImportEntries(_, _, _, _, _, _, _)
ImportEntries(src, pos, i, str_count, current_file_map, out, texts) ==
    IF i >= str_count - 1
    THEN [err |-> "none", out |-> out, pos |-> pos, texts |-> texts]
    ELSE LET r == read_string_entry(src, pos)
         IN  IF r.err # "none"
             THEN [err |-> r.err, out |-> out, pos |-> r.pos, texts |-> texts]
             ELSE LET original_text == r.text
                      trans_text == DictGet(current_file_map, i, None)
                      text_to_write == IF Truthy(trans_text) THEN trans_text
                                       ELSE original_text
                      w == write_string_entry(out, text_to_write)
                  IN  IF w.err # "none"
                      THEN [err |-> w.err, out |-> out, pos |-> r.pos,
                            texts |-> texts]
                      ELSE ImportEntries(src, r.pos, i + 1, str_count,
                               current_file_map, w.out,
                               Append(texts, text_to_write.val))

\* the body of "with open(fn, 'rb') as src, open(dst_path, 'wb') as dst"
ImportFile(src, current_file_map) ==
    LET h == parse_header(src)
    IN  IF h.err # "none"
        THEN [err |-> h.err, out |-> << >>, pos |-> 0, texts |-> << >>]
        ELSE LET header_size == h.off + 9
                 head        == Read(src, 0, header_size)
                 count_bytes == Read(src, h.off, 4)
             IN  IF ~CanUnpack(count_bytes)
                 THEN [err |-> "struct.error", out |-> head,
                       pos |-> h.off + Len(count_bytes), texts |-> << >>]
                 ELSE LET e == ImportEntries(src, h.off + 4 + 5, 0,
                                   byte2int(count_bytes), current_file_map,
                                   head, << >>)
                      IN  IF e.err # "none" THEN e
                          ELSE [e EXCEPT !.out = e.out \o ReadAll(src, e.pos),
                                         !.pos = Len(src)]

-----------------------------------------------------------------------------
(* The inputs: bounds and the files, CSV files and texts drawn from them *)

MaxEntries == 2      \* entries of a generated string table
MaxCut == 6          \* bytes a generated file may lack at its end
MaxBatch == 2        \* files of a batch
MaxCount == 1        \* records of a generated header table
MaxTextLen == 2      \* code points of a generated text

Fill(n, b) == [k \in 1..n |-> b]

\* a count below 256 as a 4-byte little-endian field of a generated file
LE32(n) == << n, 0, 0, 0 >>

RECURSIVE Concat(_)
Concat(seqs) == IF seqs = << >> THEN << >> ELSE Head(seqs) \o Concat(Tail(seqs))

\* the version block without a length prefix, "VER" first
HeaderBare(unk) ==
    << 86, 69, 82, 49, 46, 48, 48, 0, 0 >> \o LE32(unk) \o Fill(4 * unk, 7)

\* the version block behind a length prefix of 9
HeaderPrefixed(unk) ==
    << 9, 0, 0, 0, 86, 69, 82, 49, 46, 48, 48, 0, 0 >> \o LE32(unk)
        \o Fill(4 * unk, 7)

\* the init-code table and the code table
Tables(a, b) == LE32(a) \o Fill(8 * a, 3) \o LE32(b) \o Fill(8 * b, 4)

\* entries as they lie in a file: "A" and a line feed terminated, an entry of
\* length 0, "B" without terminator, an ill-formed UTF-8 byte terminated,
\* "A" and a null terminated
RawEntries ==
    { << 2, 0, 0, 0, 65, 0 >>, << 2, 0, 0, 0, 10, 0 >>, << 0, 0, 0, 0 >>,
      << 1, 0, 0, 0, 66 >>, << 2, 0, 0, 0, 255, 0 >>, << 3, 0, 0, 0, 65, 0, 0 >> }

EntryLists == UNION { [1..n -> RawEntries] : n \in 0..MaxEntries }

\* the string table of these entries and what follows it (the last nominal
\* entry and the trailing bytes)
StrTable(entries, trailer) ==
    LE32(Len(entries) + 1) \o Fill(5, 5) \o Concat(entries) \o trailer

Trailers == { << >>, << 2, 0, 0, 0, 90, 0, 8, 8 >> }

ImportHeaders ==
    { Tables(0, 0), HeaderBare(1) \o Tables(1, 0), HeaderPrefixed(0) \o Tables(0, 1) }

FileDatas ==
    { h \o StrTable(e, t) : h \in ImportHeaders, e \in EntryLists, t \in Trailers }
    \cup { h \o LE32(0) \o Fill(5, 5) : h \in ImportHeaders }

CutEnd(data, k) == SubSeq(data, 1, Len(data) - k)

SourceFiles ==
    { [data |-> CutEnd(d, k), readable |-> TRUE] :
        d \in FileDatas, k \in 0..MaxCut }
    \cup { [data |-> Tables(0, 0) \o StrTable(<< >>, << >>), readable |-> FALSE] }

Row(f, i, t) == [file |-> f, id |-> i, original |-> << >>, translation |-> t]

\* the CSV at csv_path: missing, no row, the rows of a dump left untranslated,
\* rows with an empty and a non-empty
\* translation (with an escaped line feed), rows of another file, two rows
\* for one entry, a row past the table
CsvChoices ==
    { None,
      Some(<< >>),
      Some(<< Row(1, 0, << >>), Row(1, 1, << >>) >>),
      Some(<< Row(1, 0, << 67 >>) >>),
      Some(<< Row(1, 0, << >>), Row(1, 1, << 233, 92, 110 >>) >>),
      Some(<< Row(2, 0, << 67 >>), Row(1, 1, << 67 >>),
              Row(1, 1, << 68, 92, 114 >>), Row(1, 7, << 67 >>) >>) }

BatchFiles ==
    { [data |-> Tables(0, 0) \o StrTable(<< << 2, 0, 0, 0, 65, 0 >> >>, << >>),
       readable |-> TRUE],
      [data |-> Tables(0, 0) \o StrTable(<< << 2, 0, 0, 0, 65, 0 >> >>, << >>),
       readable |-> FALSE],
      [data |-> << >>, readable |-> TRUE],
      [data |-> CutEnd(Tables(0, 0) \o StrTable(<< << 2, 0, 0, 0, 65, 0 >> >>, << >>), 4),
       readable |-> TRUE],
      [data |-> CutEnd(Tables(0, 0) \o StrTable(<< << 2, 0, 0, 0, 65, 0 >> >>, << >>), 6),
       readable |-> TRUE] }

Batches == UNION { [1..n -> BatchFiles] : n \in 1..MaxBatch }

-----------------------------------------------------------------------------
(* dump_script and import_script *)

\* os.path.relpath(fn, script_path) of the k-th file: files are told apart by
\* their rank in get_files()
rel_path(k) == k

InitRun ==
    /\ translation_map = << >>
    /\ pc = "start"
    /\ fi = 1
    /\ dst = [k \in 1..Len(files) |-> None]
    /\ rows = << >>
    /\ csv_out = None
    /\ exc = "none"
    /\ ret = None

Init ==
    /\ command \in {"dump", "import"}
    /\ files \in { << f >> : f \in SourceFiles }
    /\ csv \in IF command = "dump" THEN {None} ELSE CsvChoices
    /\ cur_text = None
    /\ InitRun

InitBatch ==
    /\ command \in {"dump", "import"}
    /\ files \in Batches
    /\ csv \in IF command = "dump" THEN {None}
               ELSE {None, Some(<< Row(1, 0, << 67 >>), Row(2, 0, << 68 >>) >>)}
    /\ cur_text = None
    /\ InitRun

\* import_script up to the for loop: the translation map
LoadCsv ==
    /\ command = "import"
    /\ pc = "start"
    /\ translation_map' = IF csv.some THEN LoadRows(csv.val, << >>) ELSE << >>
    /\ pc' = "files"
    /\ UNCHANGED << command, files, csv, fi, dst, rows, csv_out, exc, ret, cur_text >>

\* dump_script up to the for loop
DumpStart ==
    /\ command = "dump"
    /\ pc = "start"
    /\ rows' = << >>
    /\ pc' = "files"
    /\ UNCHANGED << command, files, csv, translation_map, fi, dst, csv_out, exc,
                    ret, cur_text >>

\* one turn of "for fn in files" of import_script; an exception leaves the
\* loop and the command, the output file keeping what was written
ImportNextFile ==
    /\ command = "import"
    /\ pc = "files"
    /\ fi <= Len(files)
    /\ LET fn == files[fi]
           current_file_map == DictGet(translation_map, rel_path(fi), << >>)
           r  == ImportFile(fn.data, [i \in DOMAIN current_file_map |->
                                         Some(current_file_map[i])])
       IN  IF ~fn.readable
           THEN /\ exc' = "OSError"
                /\ pc' = "raised"
                /\ UNCHANGED << fi, dst, ret >>
           ELSE /\ dst' = [dst EXCEPT ![fi] = Some(r.out)]
                /\ ret' = r
                /\ exc' = r.err
                /\ pc' = IF r.err = "none" THEN "files" ELSE "raised"
                /\ fi' = IF r.err = "none" THEN fi + 1 ELSE fi
    /\ UNCHANGED << command, files, csv, translation_map, rows, csv_out, cur_text >>

\* import_script after the loop
ImportDone ==
    /\ command = "import"
    /\ pc = "files"
    /\ fi > Len(files)
    /\ pc' = "done"
    /\ UNCHANGED << command, files, csv, translation_map, fi, dst, rows, csv_out,
                    exc, ret, cur_text >>

\* one turn of "for fn in files" of dump_script
DumpNextFile ==
    /\ command = "dump"
    /\ pc = "files"
    /\ fi <= Len(files)
    /\ LET fn == files[fi]
           r  == DumpFile(fn.data, rel_path(fi))
       IN  IF ~fn.readable
           THEN /\ exc' = "OSError"
                /\ pc' = "raised"
                /\ UNCHANGED << fi, rows, ret >>
           ELSE /\ rows' = rows \o r.rows
                /\ ret' = r
                /\ exc' = r.err
                /\ pc' = IF r.err = "none" THEN "files" ELSE "raised"
                /\ fi' = IF r.err = "none" THEN fi + 1 ELSE fi
    /\ UNCHANGED << command, files, csv, translation_map, dst, csv_out, cur_text >>

\* dump_script after the loop: the CSV is written
DumpWriteCsv ==
    /\ command = "dump"
    /\ pc = "files"
    /\ fi > Len(files)
    /\ csv_out' = Some(rows)
    /\ pc' = "done"
    /\ UNCHANGED << command, files, csv, translation_map, fi, dst, rows, exc, ret,
                    cur_text >>

Next ==
    \/ LoadCsv
    \/ DumpStart
    \/ ImportNextFile
    \/ ImportDone
    \/ DumpNextFile
    \/ DumpWriteCsv

Spec == Init /\ [][Next]_vars

SpecBatch == InitBatch /\ [][Next]_vars

-----------------------------------------------------------------------------
(* The container layout as the format description gives it, read from the   *)
(* bytes of a file without the tool: what the properties below compare the  *)
(* tool's results with.  A position is 0-based; -1 stands for "not there".  *)

U32(src, p) ==
    src[p + 1] + 256 * src[p + 2] + 65536 * src[p + 3] + 16777216 * src[p + 4]

\* the 4-byte field at p, -1 when it does not lie inside the file
Field(src, p) == IF p >= 0 /\ p + 4 <= Len(src) THEN U32(src, p) ELSE -1

IsBare(src) == Len(src) >= 3 /\ src[1] = 86 /\ src[2] = 69 /\ src[3] = 82

IsPrefixed(src) ==
    /\ ~IsBare(src)
    /\ Len(src) >= 7
    /\ src[1] = 9
    /\ src[5] = 86
    /\ src[6] = 69
    /\ src[7] = 82

\* where the init-code table starts
AfterVersion(src) ==
    IF IsBare(src)
    THEN IF Field(src, 9) < 0 THEN -1 ELSE 9 + 4 + 4 * Field(src, 9)
    ELSE IF IsPrefixed(src)
    THEN IF Field(src, 13) < 0 THEN -1 ELSE 13 + 4 + 4 * Field(src, 13)
    ELSE 0

\* where the string table starts
ExpectedOffset(src) ==
    LET a == AfterVersion(src)
        initCodeCount == Field(src, a)
        b == a + 4 + 8 * initCodeCount
        codeCount == Field(src, b)
    IN  IF a < 0 \/ initCodeCount < 0 THEN -1
        ELSE IF codeCount < 0 THEN -1
        ELSE b + 4 + 8 * codeCount

\* where entry i starts (entry 0 at first), -1 when an earlier entry is cut
RECURSIVE EntryPos(_, _, _)
EntryPos(src, first, i) ==
    IF i = 0 THEN first
    ELSE LET p == EntryPos(src, first, i - 1)
         IN  IF p < 0 \/ Field(src, p) < 0 THEN -1
             ELSE IF p + 4 + U32(src, p) > Len(src) THEN -1
             ELSE p + 4 + U32(src, p)

\* the number of entries the table holds: strCount - 1, none for strCount 0
EntryCount(src) ==
    LET n == Field(src, ExpectedOffset(src)) - 1 IN IF n < 0 THEN 0 ELSE n

FirstEntry(src) == ExpectedOffset(src) + 9

\* the header, strCount, the 5 bytes and every one of the entries are there
Complete(src) ==
    /\ ExpectedOffset(src) >= 0
    /\ FirstEntry(src) <= Len(src)
    /\ EntryPos(src, FirstEntry(src), EntryCount(src)) >= 0

\* the header, strCount and the 5 bytes are there, the entries are not all
Truncated(src) ==
    /\ ExpectedOffset(src) >= 0
    /\ FirstEntry(src) <= Len(src)
    /\ EntryPos(src, FirstEntry(src), EntryCount(src)) < 0

\* the bytes of entry i of a complete table: length field and content
EntryBytes(src, i) ==
    SubSeq(src, EntryPos(src, FirstEntry(src), i) + 1,
           EntryPos(src, FirstEntry(src), i + 1))

EntryContent(src, i) ==
    LET e == EntryBytes(src, i) IN SubSeq(e, 5, Len(e))

\* entry i has length > 0 and ends with 0x00
Terminated(src, i) ==
    LET e == EntryBytes(src, i) IN Len(e) > 4 /\ e[Len(e)] = 0

\* the text of entry i without its terminator
EntryText(src, i) ==
    LET c == EntryContent(src, i)
    IN  IF Terminated(src, i) THEN decode(SubSeq(c, 1, Len(c) - 1)) ELSE decode(c)

\* the content of entry i, terminator apart, is well-formed UTF-8
ValidUtf8(src, i) ==
    LET c == EntryContent(src, i)
        t == IF Terminated(src, i) THEN SubSeq(c, 1, Len(c) - 1) ELSE c
    IN  encode(decode(t)) = t

\* the translation the map holds for entry i of file k, << >> when none
Translation(k, i) ==
    DictGet(DictGet(translation_map, rel_path(k), << >>), i, << >>)

\* the for loop of import_script has handled file k and went on
Imported(k) == command = "import" /\ k \in 1..Len(files) /\ fi > k

\* the for loop of dump_script has handled file k and went on
Dumped(k) == command = "dump" /\ k \in 1..Len(files) /\ fi > k

\* the command has ended on file k
EndedOn(k) == k \in 1..Len(files) /\ fi = k /\ pc = "raised"

\* what entry i of file k is written with: the non-empty translation, else
\* the original text
Selected(k, i) ==
    IF Translation(k, i) # << >> THEN Translation(k, i)
    ELSE EntryText(files[k].data, i)

\* a text as write_string_entry lays it out
Rewritten(t) == LE32(Len(encode(t)) + 1) \o encode(t) \o << 0 >>

-----------------------------------------------------------------------------
(* C1: repacking without translations *)

C1_Pre(k) ==
    /\ files[k].readable
    /\ Complete(files[k].data)
    /\ \A i \in 0..EntryCount(files[k].data) - 1 :
        /\ Terminated(files[k].data, i)
        /\ Translation(k, i) = << >>

\* C1 as stated: a readable source file with a well-formed header and a
\* complete string table whose entries are all null-terminated, imported
\* with no or only empty translations, gives an output file equal to it
\* byte for byte.  Violated: an entry that is not well-formed UTF-8 is
\* decoded with errors='replace' and written back as U+FFFD.
C1_RepackIdentical ==
    \A k \in 1..Len(files) :
        C1_Pre(k) /\ (command = "import" /\ pc # "start" /\ fi >= k)
            => ~EndedOn(k) /\ (Imported(k) => dst[k] = Some(files[k].data))

\* C1 amended: the same, for files whose every entry also holds well-formed
\* UTF-8.
C1_RepackIdenticalValidUtf8 ==
    \A k \in 1..Len(files) :
        /\ C1_Pre(k)
        /\ \A i \in 0..EntryCount(files[k].data) - 1 : ValidUtf8(files[k].data, i)
        /\ command = "import" /\ pc # "start" /\ fi >= k
        => ~EndedOn(k) /\ (Imported(k) => dst[k] = Some(files[k].data))

\* a file with two terminated entries and a trailer was imported under a CSV
\* that exists and holds only an empty translation for it
C1_Witness ==
    /\ Imported(1)
    /\ C1_Pre(1)
    /\ \A i \in 0..EntryCount(files[1].data) - 1 : ValidUtf8(files[1].data, i)
    /\ EntryCount(files[1].data) = 2
    /\ EntryPos(files[1].data, FirstEntry(files[1].data), 2) < Len(files[1].data)
    /\ csv.some
    /\ csv.val # << >>
    /\ dst[1] = Some(files[1].data)

-----------------------------------------------------------------------------
(* C2: a truncated string table *)

\* C2 as stated: when strCount announces more entries than the file holds,
\* neither command ends on an exception, wherever the file runs out.
\* Violated: import_script hands the None of read_string_entry to
\* write_string_entry (AttributeError), and a length field cut to 1..3 bytes
\* makes byte2int raise struct.error in both commands.
C2_TruncatedTableFinishes ==
    \A k \in 1..Len(files) :
        files[k].readable /\ Truncated(files[k].data) => ~EndedOn(k)

-----------------------------------------------------------------------------
(* C3: fault isolation in a batch *)

\* file k can be processed by the command on its own
Processable(k) ==
    /\ files[k].readable
    /\ IF command = "import"
       THEN ImportFile(files[k].data,
                [i \in DOMAIN DictGet(translation_map, rel_path(k), << >>) |->
                    Some(translation_map[rel_path(k)][i])]).err = "none"
       ELSE DumpFile(files[k].data, rel_path(k)).err = "none"

\* file k has been processed: its output file is complete, or its rows are
\* in the CSV written
Processed(k) ==
    IF command = "import"
    THEN /\ dst[k].some
         /\ dst[k].val = ImportFile(files[k].data,
                [i \in DOMAIN DictGet(translation_map, rel_path(k), << >>) |->
                    Some(translation_map[rel_path(k)][i])]).out
    ELSE /\ csv_out.some
         /\ \A j \in 1..Len(DumpFile(files[k].data, rel_path(k)).rows) :
                \E n \in 1..Len(csv_out.val) :
                    csv_out.val[n] = DumpFile(files[k].data, rel_path(k)).rows[j]

\* C3 as stated: when the command has ended, every file of the batch that can
\* be processed on its own has been processed.  Violated: neither loop
\* catches an exception, so the first failing file ends the command; the
\* files after it are not handled, and dump_script writes no CSV at all.
C3_FaultIsolation ==
    pc \in {"done", "raised"} =>
        \A k \in 1..Len(files) : Processable(k) => Processed(k)

-----------------------------------------------------------------------------
(* C7: which text an entry is written with *)

\* the CSV holds a row for entry i of file k
HasRow(k, i) ==
    /\ csv.some
    /\ \E n \in 1..Len(csv.val) :
        csv.val[n].file = rel_path(k) /\ csv.val[n].id = i

\* C7: during import every entry of the table is written with its
\* translation when the map holds a non-empty one, else with the original
\* text; without a CSV file, or without a row for the entry, that is the
\* original text; and the import of a file whose table is complete ends
\* without an exception, every one of its strCount-1 entries written.
C7_TextSelection ==
    \A k \in 1..Len(files) :
        /\ command = "import"
        /\ files[k].readable
        /\ (pc # "start" /\ fi = k + 1) \/ EndedOn(k)
        => LET src == files[k].data
           IN  /\ \A j \in 1..Len(ret.texts) :
                    EntryPos(src, FirstEntry(src), j) >= 0 =>
                        /\ ret.texts[j] = Selected(k, j - 1)
                        /\ ~HasRow(k, j - 1) => ret.texts[j] = EntryText(src, j - 1)
               /\ Complete(src) =>
                    /\ Imported(k)
                    /\ Len(ret.texts) = EntryCount(src)

\* a file of two entries was imported, the first under an empty translation
\* and written with its original text, the second with its translation
C7_Witness ==
    /\ Imported(1)
    /\ Complete(files[1].data)
    /\ EntryCount(files[1].data) = 2
    /\ HasRow(1, 0)
    /\ Translation(1, 0) = << >>
    /\ Translation(1, 1) # << >>
    /\ ret.texts = << EntryText(files[1].data, 0), Translation(1, 1) >>
    /\ ret.texts[1] # << >>

-----------------------------------------------------------------------------
(* C8: what import leaves unchanged *)

\* the source bytes [0, offset + 9)
HeadBytes(src) == SubSeq(src, 1, FirstEntry(src))

\* the source bytes after the last entry of the table
RestBytes(src) ==
    SubSeq(src, EntryPos(src, FirstEntry(src), EntryCount(src)) + 1, Len(src))

\* every entry is as the layout has it: of length 0, or ending with 0x00
LayoutEntries(src) ==
    \A i \in 0..EntryCount(src) - 1 :
        Len(EntryBytes(src, i)) = 4 \/ Terminated(src, i)

\* C8 as stated: the output is the source bytes [0, offset+9), then the
\* strCount-1 entries in order, a translated one rewritten and one without
\* (or with an empty) translation with its original bytes, then the source
\* bytes after the last of them.  Violated: every entry is re-encoded, so an
\* entry of length 0 comes out as length 1 and one 0x00.
C8_FrameOriginalBytes ==
    \A k \in 1..Len(files) :
        Imported(k) /\ Complete(files[k].data) /\ LayoutEntries(files[k].data)
        => LET src == files[k].data
           IN  dst[k].val =
                 HeadBytes(src)
                 \o Concat([j \in 1..EntryCount(src) |->
                        IF Translation(k, j - 1) # << >>
                        THEN Rewritten(Translation(k, j - 1))
                        ELSE EntryBytes(src, j - 1)])
                 \o RestBytes(src)

\* C8 amended: the output is the source bytes [0, offset+9), then the
\* strCount-1 entries in order, each laid out anew (length = UTF-8 length + 1,
\* the UTF-8 bytes, 0x00) from its non-empty translation or else from its
\* original text, then the source bytes after the last of them; an entry
\* without (or with an empty) translation keeps its original bytes exactly
\* when it ended with 0x00 and held well-formed UTF-8.
C8_FrameRewritten ==
    \A k \in 1..Len(files) :
        Imported(k) /\ Complete(files[k].data)
        => LET src == files[k].data
           IN  /\ dst[k].val =
                     HeadBytes(src)
                     \o Concat([j \in 1..EntryCount(src) |->
                            Rewritten(Selected(k, j - 1))])
                     \o RestBytes(src)
               /\ \A i \in 0..EntryCount(src) - 1 :
                    Translation(k, i) = << >> =>
                        ((Rewritten(Selected(k, i)) = EntryBytes(src, i))
                            <=> (Terminated(src, i) /\ ValidUtf8(src, i)))

\* a file with a trailer was imported whose first entry has length 0 and no
\* translation and whose second entry has a translation
C8_Witness ==
    /\ Imported(1)
    /\ Complete(files[1].data)
    /\ EntryCount(files[1].data) = 2
    /\ Len(EntryBytes(files[1].data, 0)) = 4
    /\ Translation(1, 0) = << >>
    /\ Translation(1, 1) # << >>
    /\ RestBytes(files[1].data) # << >>
    /\ Len(dst[1].val) > Len(files[1].data)

-----------------------------------------------------------------------------
(* C10: the output of import as a container *)

\* C10: for a source file with a complete table, the output of import has
\* the same string-table offset and strCount; dumping it gives, for each
\* entry, the (escaped) translation when there was a non-empty one and else
\* what dumping the source gives; importing it again without translations
\* reproduces it byte for byte.
C10_OutputParseable ==
    \A k \in 1..Len(files) :
        Imported(k) /\ Complete(files[k].data)
        => LET src   == files[k].data
               out   == dst[k].val
               d     == DumpFile(out, rel_path(k))
               s     == DumpFile(src, rel_path(k))
               again == ImportFile(out, << >>)
           IN  /\ parse_header(out) = [err |-> "none", off |-> ExpectedOffset(src)]
               /\ parse_header(src) = parse_header(out)
               /\ Field(out, ExpectedOffset(src)) = Field(src, ExpectedOffset(src))
               /\ d.err = "none"
               /\ s.err = "none"
               /\ Len(d.rows) = EntryCount(src)
               /\ Len(s.rows) = EntryCount(src)
               /\ \A i \in 0..EntryCount(src) - 1 :
                    /\ d.rows[i + 1].id = i
                    /\ d.rows[i + 1].original =
                         IF Translation(k, i) # << >>
                         THEN sanitize(Translation(k, i))
                         ELSE s.rows[i + 1].original
               /\ again.err = "none"
               /\ again.out = out

\* a file was imported that has an entry without terminator and no
\* translation and an entry translated to a text with a line feed, so that
\* the output differs from the source
C10_Witness ==
    /\ Imported(1)
    /\ Complete(files[1].data)
    /\ EntryCount(files[1].data) = 2
    /\ ~Terminated(files[1].data, 0)
    /\ Len(EntryBytes(files[1].data, 0)) > 4
    /\ Translation(1, 0) = << >>
    /\ \E j \in 1..Len(Translation(1, 1)) : Translation(1, 1)[j] = 10
    /\ dst[1].val # files[1].data

-----------------------------------------------------------------------------
(* parse_header on its own *)

\* buffers that fall back to the unversioned variant although they look like
\* a version block: a first byte 9 without "VER" behind it (9 init-code
\* records), and "VER" at offset 4 behind a first byte that is not 9
Lookalikes ==
    { LE32(9) \o Fill(72, 3), LE32(1) \o << 86, 69, 82, 49, 46, 48, 48, 0 >> }

HeaderInputs ==
    { v \o Tables(a, b) \o t :
        v \in { << >> } \cup { HeaderBare(u) : u \in 0..MaxCount }
                \cup { HeaderPrefixed(u) : u \in 0..MaxCount },
        a \in 0..MaxCount, b \in 0..MaxCount,
        t \in { << >>, StrTable(<< << 2, 0, 0, 0, 65, 0 >> >>, << >>) } }
    \cup { v \o LE32(b) \o Fill(8 * b, 4) \o LE32(1) :
            v \in Lookalikes, b \in 0..MaxCount }

InitHeader ==
    /\ command = "header"
    /\ files \in { << [data |-> d, readable |-> TRUE] >> : d \in HeaderInputs }
    /\ csv = None
    /\ cur_text = None
    /\ InitRun

\* the file on disk is one byte shorter
TruncateInput ==
    /\ command = "header"
    /\ pc = "start"
    /\ files[1].data # << >>
    /\ files' = << [files[1] EXCEPT !.data = CutEnd(files[1].data, 1)] >>
    /\ UNCHANGED << command, csv, translation_map, pc, fi, dst, rows, csv_out,
                    exc, ret, cur_text >>

\* str_offset = parse_header(src)
CallParseHeader ==
    /\ command = "header"
    /\ pc = "start"
    /\ ret' = parse_header(files[1].data)
    /\ exc' = ret'.err
    /\ pc' = IF ret'.err = "none" THEN "done" ELSE "raised"
    /\ UNCHANGED << command, files, csv, translation_map, fi, dst, rows, csv_out,
                    cur_text >>

NextHeader == TruncateInput \/ CallParseHeader

SpecHeader == InitHeader /\ [][NextHeader]_vars

\* C4: for a buffer whose count fields lie inside it, parse_header returns
\* 9+4+4*unkCount+4+8*initCodeCount+4+8*codeCount behind a bare "VER",
\* 13+4+... behind a length byte 9 and "VER" at 4..6, and
\* 4+8*initCodeCount+4+8*codeCount otherwise; changing or dropping the bytes
\* at and after that offset does not change the result.
C4_HeaderOffset ==
    command = "header" /\ pc # "start" /\ ExpectedOffset(files[1].data) >= 0
    => LET src == files[1].data
       IN  /\ pc = "done"
           /\ ret = [err |-> "none", off |-> ExpectedOffset(src)]
           /\ \A p \in (ret.off + 1)..Len(src) : \A b \in {0, 9, 86, 255} :
                parse_header([src EXCEPT ![p] = b]) = ret
           /\ ret.off <= Len(src) => parse_header(SubSeq(src, 1, ret.off)) = ret

\* the offset of a length-prefixed version block with one record in each of
\* its three tables was returned, a string table following it
C4_Witness ==
    /\ command = "header"
    /\ pc = "done"
    /\ IsPrefixed(files[1].data)
    /\ Field(files[1].data, 13) = 1
    /\ ret.off = 13 + 4 + 4 + 4 + 8 + 4 + 8
    /\ Len(files[1].data) > ret.off

\* C5 as stated: parse_header raises for no buffer.  Violated: an empty
\* buffer raises IndexError at version[0], a buffer that ends inside a count
\* field raises struct.error in byte2int.
C5_HeaderNeverRaises == command = "header" => pc # "raised"

-----------------------------------------------------------------------------
(* read_string_entry and write_string_entry on their own *)

CodePoints == {0, 10, 65, 233, 8364, 128512}

Texts == UNION { [1..n -> CodePoints] : n \in 0..MaxTextLen }

\* a source holding one entry, some with bytes behind it
CodecSources ==
    { << 0, 0, 0, 0 >>, << 0, 0, 0, 0, 65, 0 >>, << 0, 0, 0, 0, 0, 0, 0, 0 >>,
      << 2, 0, 0, 0, 65, 0 >>, << 1, 0, 0, 0, 66 >>, << 2, 0, 0, 0, 255, 0 >>,
      << 3, 0, 0, 0, 195, 169, 0, 7 >>, << 3, 0, 0, 0, 65 >>, << 2, 0 >>, << >> }

\* either a text to write, or a source entry to read first
InitCodec ==
    /\ command = "codec"
    /\ files \in { << >> }
                 \cup { << [data |-> d, readable |-> TRUE] >> : d \in CodecSources }
    /\ cur_text \in IF files = << >> THEN { Some(t) : t \in Texts } ELSE { None }
    /\ pc = IF files = << >> THEN "text" ELSE "start"
    /\ csv = None
    /\ translation_map = << >>
    /\ fi = 1
    /\ dst = << None >>
    /\ rows = << >>
    /\ csv_out = None
    /\ exc = "none"
    /\ ret = None

\* original_text = read_string_entry(src), the cursor at the entry
CodecRead ==
    /\ command = "codec"
    /\ pc = "start"
    /\ ret' = read_string_entry(files[1].data, 0)
    /\ exc' = ret'.err
    /\ cur_text' = ret'.text
    /\ pc' = IF ret'.err = "none" THEN "text" ELSE "raised"
    /\ UNCHANGED << command, files, csv, translation_map, fi, dst, rows, csv_out >>

\* write_string_entry(dst, text) into an empty dst
CodecWrite ==
    /\ command = "codec"
    /\ pc = "text"
    /\ LET w == write_string_entry(<< >>, cur_text)
       IN  /\ exc' = w.err
           /\ dst' = IF w.err = "none" THEN << Some(w.out) >> ELSE dst
           /\ pc' = IF w.err = "none" THEN "written" ELSE "raised"
    /\ UNCHANGED << command, files, csv, translation_map, fi, rows, csv_out, ret,
                    cur_text >>

\* read_string_entry on what was written
CodecReadBack ==
    /\ command = "codec"
    /\ pc = "written"
    /\ ret' = read_string_entry(dst[1].val, 0)
    /\ exc' = ret'.err
    /\ pc' = IF ret'.err = "none" THEN "readback" ELSE "raised"
    /\ UNCHANGED << command, files, csv, translation_map, fi, dst, rows, csv_out,
                    cur_text >>

NextCodec == CodecRead \/ CodecWrite \/ CodecReadBack

SpecCodec == InitCodec /\ [][NextCodec]_vars

NoNull(t) == \A j \in 1..Len(t) : t[j] # 0

\* C6: a non-empty text without a null is written as the 4-byte length
\* len(utf8) + 1, the UTF-8 bytes and one 0x00, and reading that back returns
\* the text and consumes exactly those bytes.
C6_WriteReadRoundTrip ==
    /\ command = "codec" /\ cur_text.some /\ cur_text.val # << >>
       /\ NoNull(cur_text.val) /\ pc \in {"text", "written", "readback", "raised"}
       => /\ pc # "raised"
          /\ pc \in {"written", "readback"} =>
                /\ Len(dst[1].val) = 4 + Len(encode(cur_text.val)) + 1
                /\ Field(dst[1].val, 0) = Len(encode(cur_text.val)) + 1
                /\ SubSeq(dst[1].val, 5, Len(dst[1].val) - 1) = encode(cur_text.val)
                /\ dst[1].val[Len(dst[1].val)] = 0
          /\ pc = "readback" =>
                /\ ret.text = cur_text
                /\ ret.pos = Len(dst[1].val)

\* a two-code-point text with a 2-byte and a 4-byte character was written
\* and read back
C6_Witness ==
    /\ command = "codec"
    /\ pc = "readback"
    /\ cur_text = Some(<< 233, 128512 >>)
    /\ ret.text = cur_text
    /\ Len(dst[1].val) = 11

\* C9: a source entry whose length field is 0 reads as the empty text with no
\* byte consumed after the field; written, the empty text is length 1 and one
\* 0x00, never length 0 (5 bytes for the 4 read); read back, it is the empty
\* text again.
C9_EmptyEntryAsymmetry ==
    command = "codec" /\ files # << >> /\ Field(files[1].data, 0) = 0
    => /\ pc # "raised"
       /\ pc # "start" => cur_text = Some(<< >>)
       /\ pc = "text" => ret = [err |-> "none", text |-> Some(<< >>), pos |-> 4]
       /\ pc \in {"written", "readback"} => dst[1] = Some(<< 1, 0, 0, 0, 0 >>)
       /\ pc = "readback" => ret = [err |-> "none", text |-> Some(<< >>), pos |-> 5]

\* an entry of length 0 with other bytes behind it was read, written and
\* read back
C9_Witness ==
    /\ command = "codec"
    /\ pc = "readback"
    /\ files # << >>
    /\ files[1].data = << 0, 0, 0, 0, 65, 0 >>
    /\ dst[1].val = << 1, 0, 0, 0, 0 >>
    /\ ret.text = Some(<< >>)

=============================================================================
